---- MODULE Spec2Model ----
(***************************************************************************)
(* Model of the spatial block layer of the ADDER compressed codec          *)
(* (adder-codec-rs, src/codec/compressed/blocks.rs): the zig-zag order     *)
(* table, Block, the ZigZag iterator and Cube.                             *)
(*                                                                         *)
(* Rust arrays are functions over 0..len-1 (the source's indices), a       *)
(* Vec<Block> is a sequence (element k of the Vec is vec[k+1]), and an     *)
(* Option is the empty tuple (None) or a one-element tuple (Some).         *)
(*                                                                         *)
(* BLOCK_SIZE_BIG is a compile-time constant of the crate whose defining   *)
(* file is not among the sources; every build fixes one value, so it is a  *)
(* variable that Init chooses and no action changes.                       *)
(***************************************************************************)
EXTENDS Integers, Sequences, FiniteSets, TLC

VARIABLES
    BLOCK_SIZE_BIG, \* side of a block, fixed per build
    gen,            \* locals of gen_zigzag_order: order, idx, up, y, x, pc
    block,          \* a Block driven directly through Block::set_event
    zigzag,         \* the live ZigZag iterator borrowing block (None or Some)
    last,           \* the last operation on block or zigzag, with its result
    cube,           \* a Cube
    event,          \* argument of the last Cube::set_event
    ret,            \* what the last Cube::set_event returned
    ncalls,         \* number of set_event calls made
    accepted        \* per (channel, slot), the events Cube::set_event accepted, in order

vars == << BLOCK_SIZE_BIG, gen, block, zigzag, last, cube, event, ret, ncalls, accepted >>

(***************************************************************************)
(* Bounds of the model.                                                    *)
(***************************************************************************)
\* sides 1..MaxSide are generated by the order-table specification
MaxSide == 7
\* Cube::set_event calls per behaviour
MaxEvents == 4
\* Block::set_event calls per behaviour on the directly driven block
MaxBlockCalls == 3
\* calls of ZigZag::next beyond the table's length
MaxOverrun == 1
\* Cube::set_event calls and writes through the public fields per behaviour
MaxPubSteps == 3
\* Cube::set_event calls per behaviour of the multi-generation specification
MaxFillEvents == 8
\* Cube::set_event calls per behaviour of the specification with history
MaxLogEvents == 3
\* Cube::set_event calls per behaviour of the specification of pairs of calls
MaxPairCalls == 3
\* delta_t of the events converted to frame values is 0 .. MaxDeltaT
MaxDeltaT == 3

\* block side of the Cube specification
CubeSide == 2
\* block side of the Block / ZigZag specification
BlockSide == 3
\* length of the D_SHIFT table in the FrameValue specification
DShiftLen == 4

U16 == 65536

None == << >>
Some(v) == << v >>
IsSome(o) == o # None
Unwrap(o) == o[1]

Ok == [kind |-> "Ok"]
\* BlockError::AlreadyExists { idx }
AlreadyExists(i) == [kind |-> "AlreadyExists", idx |-> i]
\* a panic (index out of bounds, "Invalid color")
Panic == [kind |-> "Panic"]
NoCall == [kind |-> "NoCall"]

\* number of slots of a block: BLOCK_SIZE_BIG * BLOCK_SIZE_BIG
NumSlots == BLOCK_SIZE_BIG * BLOCK_SIZE_BIG
Slots == 0 .. (NumSlots - 1)

(***************************************************************************)
(* gen_zigzag_order                                                        *)
(***************************************************************************)
\* the locals before the loop: order = [0; n*n], idx = 0, up = true, (y, x) = (0, 0)
GenInit(n) ==
    [order |-> [k \in 0 .. (n * n - 1) |-> 0], idx |-> 0, up |-> TRUE,
     y |-> 0, x |-> 0, pc |-> "loop"]

\* GenMove, as it would be if the first-row turn forgot to flip the direction
GenMove_NoFlip(g, n) ==
    IF g.up
    THEN IF g.x = n - 1 THEN [g EXCEPT !.y = g.y + 1, !.up = FALSE]
         ELSE IF g.y = 0 THEN [g EXCEPT !.x = g.x + 1]
         ELSE [g EXCEPT !.x = g.x + 1, !.y = g.y - 1]
    ELSE IF g.y = n - 1 THEN [g EXCEPT !.x = g.x + 1, !.up = TRUE]
         ELSE IF g.x = 0 THEN [g EXCEPT !.y = g.y + 1, !.up = TRUE]
         ELSE [g EXCEPT !.x = g.x - 1, !.y = g.y + 1]

\* GenMove, as it would be if the up-right sweep did not test for the last column
GenMove_NoLastColumn(g, n) ==
    IF g.up
    THEN IF g.y = 0 THEN [g EXCEPT !.x = g.x + 1, !.up = FALSE]
         ELSE [g EXCEPT !.x = g.x + 1, !.y = g.y - 1]
    ELSE IF g.y = n - 1 THEN [g EXCEPT !.x = g.x + 1, !.up = TRUE]
         ELSE IF g.x = 0 THEN [g EXCEPT !.y = g.y + 1, !.up = TRUE]
         ELSE [g EXCEPT !.x = g.x - 1, !.y = g.y + 1]

\* the cursor move at the end of one loop iteration
GenMove(g, n) ==
    IF g.up
    THEN IF g.x = n - 1 THEN [g EXCEPT !.y = g.y + 1, !.up = FALSE]
         ELSE IF g.y = 0 THEN [g EXCEPT !.x = g.x + 1, !.up = FALSE]
         ELSE [g EXCEPT !.x = g.x + 1, !.y = g.y - 1]
    ELSE IF g.y = n - 1 THEN [g EXCEPT !.x = g.x + 1, !.up = TRUE]
         ELSE IF g.x = 0 THEN [g EXCEPT !.y = g.y + 1, !.up = TRUE]
         ELSE [g EXCEPT !.x = g.x - 1, !.y = g.y + 1]

\* one iteration of the loop: record the cursor, advance idx, break or move
GenStep(g, n) ==
    LET rec == [g EXCEPT !.order[g.idx] = (g.y * n + g.x) % U16, !.idx = g.idx + 1]
    IN  IF rec.idx = n * n
        THEN [rec EXCEPT !.pc = "done"]
        ELSE GenMove(rec, n)

RECURSIVE GenRun(_, _)
GenRun(g, n) == IF g.pc = "done" THEN g ELSE GenRun(GenStep(g, n), n)

\* the table the function returns for side n
gen_zigzag_order(n) == GenRun(GenInit(n), n).order

\* pub static ZIGZAG_ORDER
ZIGZAG_ORDER == gen_zigzag_order(BLOCK_SIZE_BIG)

(***************************************************************************)
(* Event, EventCoordless, Block                                            *)
(***************************************************************************)
\* EventCoordless::from(event): the event without its coordinate
EventCoordlessFrom(ev) == [d |-> ev.d, delta_t |-> ev.delta_t]

\* Block::new
BlockNew == [events |-> [s \in Slots |-> None], fill_count |-> 0]

\* Block::is_filled
is_filled(b) == b.fill_count = NumSlots % U16

\* Block::set_event, as it would be if an occupied slot were overwritten
Block_set_event_Overwrite(b, ev, idx) ==
    IF idx \notin DOMAIN b.events
    THEN [block |-> b, ret |-> Panic]
    ELSE [block |-> [events |-> [b.events EXCEPT ![idx] = Some(EventCoordlessFrom(ev))],
                     fill_count |-> (b.fill_count + 1) % U16],
          ret |-> Ok]

\* Block::set_event, as it would be if fill_count were not incremented
Block_set_event_NoCount(b, ev, idx) ==
    IF idx \notin DOMAIN b.events
    THEN [block |-> b, ret |-> Panic]
    ELSE IF IsSome(b.events[idx])
    THEN [block |-> b, ret |-> AlreadyExists(idx)]
    ELSE [block |-> [events |-> [b.events EXCEPT ![idx] = Some(EventCoordlessFrom(ev))],
                     fill_count |-> b.fill_count],
          ret |-> Ok]

\* Block::set_event: the block after the call and the call's result
Block_set_event(b, ev, idx) ==
    IF idx \notin DOMAIN b.events
    THEN [block |-> b, ret |-> Panic]
    ELSE IF IsSome(b.events[idx])
    THEN [block |-> b, ret |-> AlreadyExists(idx)]
    ELSE [block |-> [events |-> [b.events EXCEPT ![idx] = Some(EventCoordlessFrom(ev))],
                     fill_count |-> (b.fill_count + 1) % U16],
          ret |-> Ok]

(***************************************************************************)
(* Cube                                                                    *)
(***************************************************************************)
\* Cube::new
CubeNew(idx_y, idx_x, idx_c) ==
    [blocks_r |-> << BlockNew >>, blocks_g |-> << BlockNew >>, blocks_b |-> << BlockNew >>,
     cube_idx_y |-> idx_y, cube_idx_x |-> idx_x, cube_idx_c |-> idx_c,
     block_idx_map_r |-> [s \in Slots |-> 0],
     block_idx_map_g |-> [s \in Slots |-> 0],
     block_idx_map_b |-> [s \in Slots |-> 0]]

\* set_event_for_channel, as it would be if the index map were not advanced on success
set_event_for_channel_NoAdvance(block_vec, block_idx_map, ev, idx) ==
    IF idx \notin DOMAIN block_idx_map
    THEN [block_vec |-> block_vec, block_idx_map |-> block_idx_map, ret |-> Panic]
    ELSE
    LET pushed == IF block_idx_map[idx] >= Len(block_vec)
                  THEN Append(block_vec, BlockNew)
                  ELSE block_vec
        cur == block_idx_map[idx]
    IN  IF cur >= Len(pushed)
        THEN [block_vec |-> pushed, block_idx_map |-> block_idx_map, ret |-> Panic]
        ELSE
        LET r == Block_set_event(pushed[cur + 1], ev, idx)
        IN  IF r.ret = Ok
            THEN [block_vec |-> [pushed EXCEPT ![cur + 1] = r.block],
                  block_idx_map |-> block_idx_map,
                  ret |-> Ok]
            ELSE [block_vec |-> pushed, block_idx_map |-> block_idx_map, ret |-> r.ret]

\* set_event_for_channel, as it would be if the index map were advanced by two
set_event_for_channel_Advance2(block_vec, block_idx_map, ev, idx) ==
    IF idx \notin DOMAIN block_idx_map
    THEN [block_vec |-> block_vec, block_idx_map |-> block_idx_map, ret |-> Panic]
    ELSE
    LET pushed == IF block_idx_map[idx] >= Len(block_vec)
                  THEN Append(block_vec, BlockNew)
                  ELSE block_vec
        cur == block_idx_map[idx]
    IN  IF cur >= Len(pushed)
        THEN [block_vec |-> pushed, block_idx_map |-> block_idx_map, ret |-> Panic]
        ELSE
        LET r == Block_set_event(pushed[cur + 1], ev, idx)
        IN  IF r.ret = Ok
            THEN [block_vec |-> [pushed EXCEPT ![cur + 1] = r.block],
                  block_idx_map |-> [block_idx_map EXCEPT ![idx] = cur + 2],
                  ret |-> Ok]
            ELSE [block_vec |-> pushed, block_idx_map |-> block_idx_map, ret |-> r.ret]

\* set_event_for_channel, as it would be if a block were pushed on every call
set_event_for_channel_PushAlways(block_vec, block_idx_map, ev, idx) ==
    IF idx \notin DOMAIN block_idx_map
    THEN [block_vec |-> block_vec, block_idx_map |-> block_idx_map, ret |-> Panic]
    ELSE
    LET pushed == Append(block_vec, BlockNew)
        cur == block_idx_map[idx]
    IN  IF cur >= Len(pushed)
        THEN [block_vec |-> pushed, block_idx_map |-> block_idx_map, ret |-> Panic]
        ELSE
        LET r == Block_set_event(pushed[cur + 1], ev, idx)
        IN  IF r.ret = Ok
            THEN [block_vec |-> [pushed EXCEPT ![cur + 1] = r.block],
                  block_idx_map |-> [block_idx_map EXCEPT ![idx] = cur + 1],
                  ret |-> Ok]
            ELSE [block_vec |-> pushed, block_idx_map |-> block_idx_map, ret |-> r.ret]

\* set_event_for_channel, as it would be if the new block were inserted at the front
set_event_for_channel_PushFront(block_vec, block_idx_map, ev, idx) ==
    IF idx \notin DOMAIN block_idx_map
    THEN [block_vec |-> block_vec, block_idx_map |-> block_idx_map, ret |-> Panic]
    ELSE
    LET pushed == IF block_idx_map[idx] >= Len(block_vec)
                  THEN << BlockNew >> \o block_vec
                  ELSE block_vec
        cur == block_idx_map[idx]
    IN  IF cur >= Len(pushed)
        THEN [block_vec |-> pushed, block_idx_map |-> block_idx_map, ret |-> Panic]
        ELSE
        LET r == Block_set_event(pushed[cur + 1], ev, idx)
        IN  IF r.ret = Ok
            THEN [block_vec |-> [pushed EXCEPT ![cur + 1] = r.block],
                  block_idx_map |-> [block_idx_map EXCEPT ![idx] = cur + 1],
                  ret |-> Ok]
            ELSE [block_vec |-> pushed, block_idx_map |-> block_idx_map, ret |-> r.ret]

\* set_event_for_channel, as it would be if the index map were advanced on an error too
set_event_for_channel_AdvanceOnError(block_vec, block_idx_map, ev, idx) ==
    IF idx \notin DOMAIN block_idx_map
    THEN [block_vec |-> block_vec, block_idx_map |-> block_idx_map, ret |-> Panic]
    ELSE
    LET pushed == IF block_idx_map[idx] >= Len(block_vec)
                  THEN Append(block_vec, BlockNew)
                  ELSE block_vec
        cur == block_idx_map[idx]
    IN  IF cur >= Len(pushed)
        THEN [block_vec |-> pushed, block_idx_map |-> block_idx_map, ret |-> Panic]
        ELSE
        LET r == Block_set_event(pushed[cur + 1], ev, idx)
        IN  [block_vec |-> [pushed EXCEPT ![cur + 1] = r.block],
             block_idx_map |-> [block_idx_map EXCEPT ![idx] = cur + 1],
             ret |-> r.ret]

\* set_event_for_channel, as it would be if two blocks were pushed instead of one
set_event_for_channel_PushTwo(block_vec, block_idx_map, ev, idx) ==
    IF idx \notin DOMAIN block_idx_map
    THEN [block_vec |-> block_vec, block_idx_map |-> block_idx_map, ret |-> Panic]
    ELSE
    LET pushed == IF block_idx_map[idx] >= Len(block_vec)
                  THEN Append(Append(block_vec, BlockNew), BlockNew)
                  ELSE block_vec
        cur == block_idx_map[idx]
    IN  IF cur >= Len(pushed)
        THEN [block_vec |-> pushed, block_idx_map |-> block_idx_map, ret |-> Panic]
        ELSE
        LET r == Block_set_event(pushed[cur + 1], ev, idx)
        IN  IF r.ret = Ok
            THEN [block_vec |-> [pushed EXCEPT ![cur + 1] = r.block],
                  block_idx_map |-> [block_idx_map EXCEPT ![idx] = cur + 1],
                  ret |-> Ok]
            ELSE [block_vec |-> pushed, block_idx_map |-> block_idx_map, ret |-> r.ret]

\* set_event_for_channel, as it would be if the block for the slot's next event were
\* pushed ahead of need, when the index reaches the last block
set_event_for_channel_PushEarly(block_vec, block_idx_map, ev, idx) ==
    IF idx \notin DOMAIN block_idx_map
    THEN [block_vec |-> block_vec, block_idx_map |-> block_idx_map, ret |-> Panic]
    ELSE
    LET pushed == IF block_idx_map[idx] + 1 >= Len(block_vec)
                  THEN Append(block_vec, BlockNew)
                  ELSE block_vec
        cur == block_idx_map[idx]
    IN  IF cur >= Len(pushed)
        THEN [block_vec |-> pushed, block_idx_map |-> block_idx_map, ret |-> Panic]
        ELSE
        LET r == Block_set_event(pushed[cur + 1], ev, idx)
        IN  IF r.ret = Ok
            THEN [block_vec |-> [pushed EXCEPT ![cur + 1] = r.block],
                  block_idx_map |-> [block_idx_map EXCEPT ![idx] = cur + 1],
                  ret |-> Ok]
            ELSE [block_vec |-> pushed, block_idx_map |-> block_idx_map, ret |-> r.ret]

\* set_event_for_channel, as it would be if the event went to the last block of the
\* sequence instead of the block the index map names
set_event_for_channel_LastBlock(block_vec, block_idx_map, ev, idx) ==
    IF idx \notin DOMAIN block_idx_map
    THEN [block_vec |-> block_vec, block_idx_map |-> block_idx_map, ret |-> Panic]
    ELSE
    LET pushed == IF block_idx_map[idx] >= Len(block_vec)
                  THEN Append(block_vec, BlockNew)
                  ELSE block_vec
        cur == block_idx_map[idx]
    IN  IF cur >= Len(pushed)
        THEN [block_vec |-> pushed, block_idx_map |-> block_idx_map, ret |-> Panic]
        ELSE
        LET r == Block_set_event(pushed[Len(pushed)], ev, idx)
        IN  IF r.ret = Ok
            THEN [block_vec |-> [pushed EXCEPT ![Len(pushed)] = r.block],
                  block_idx_map |-> [block_idx_map EXCEPT ![idx] = cur + 1],
                  ret |-> Ok]
            ELSE [block_vec |-> pushed, block_idx_map |-> block_idx_map, ret |-> r.ret]

\* set_event_for_channel, as it would be if the index map were left alone until the
\* block it names is full
set_event_for_channel_AdvanceWhenFull(block_vec, block_idx_map, ev, idx) ==
    IF idx \notin DOMAIN block_idx_map
    THEN [block_vec |-> block_vec, block_idx_map |-> block_idx_map, ret |-> Panic]
    ELSE
    LET pushed == IF block_idx_map[idx] >= Len(block_vec)
                  THEN Append(block_vec, BlockNew)
                  ELSE block_vec
        cur == block_idx_map[idx]
    IN  IF cur >= Len(pushed)
        THEN [block_vec |-> pushed, block_idx_map |-> block_idx_map, ret |-> Panic]
        ELSE
        LET r == Block_set_event(pushed[cur + 1], ev, idx)
        IN  IF r.ret = Ok
            THEN [block_vec |-> [pushed EXCEPT ![cur + 1] = r.block],
                  block_idx_map |-> IF is_filled(r.block)
                                    THEN [block_idx_map EXCEPT ![idx] = cur + 1]
                                    ELSE block_idx_map,
                  ret |-> Ok]
            ELSE [block_vec |-> pushed, block_idx_map |-> block_idx_map, ret |-> r.ret]

\* set_event_for_channel, as it would be if a success advanced the index of every
\* slot instead of the event's slot alone
set_event_for_channel_AdvanceAll(block_vec, block_idx_map, ev, idx) ==
    IF idx \notin DOMAIN block_idx_map
    THEN [block_vec |-> block_vec, block_idx_map |-> block_idx_map, ret |-> Panic]
    ELSE
    LET pushed == IF block_idx_map[idx] >= Len(block_vec)
                  THEN Append(block_vec, BlockNew)
                  ELSE block_vec
        cur == block_idx_map[idx]
    IN  IF cur >= Len(pushed)
        THEN [block_vec |-> pushed, block_idx_map |-> block_idx_map, ret |-> Panic]
        ELSE
        LET r == Block_set_event(pushed[cur + 1], ev, idx)
        IN  IF r.ret = Ok
            THEN [block_vec |-> [pushed EXCEPT ![cur + 1] = r.block],
                  block_idx_map |-> [s \in DOMAIN block_idx_map |-> cur + 1],
                  ret |-> Ok]
            ELSE [block_vec |-> pushed, block_idx_map |-> block_idx_map, ret |-> r.ret]

\* set_event_for_channel: the Vec, the index map and the result after the call
set_event_for_channel(block_vec, block_idx_map, ev, idx) ==
    IF idx \notin DOMAIN block_idx_map
    THEN [block_vec |-> block_vec, block_idx_map |-> block_idx_map, ret |-> Panic]
    ELSE
    LET pushed == IF block_idx_map[idx] >= Len(block_vec)
                  THEN Append(block_vec, BlockNew)
                  ELSE block_vec
        cur == block_idx_map[idx]
    IN  IF cur >= Len(pushed)
        THEN [block_vec |-> pushed, block_idx_map |-> block_idx_map, ret |-> Panic]
        ELSE
        LET r == Block_set_event(pushed[cur + 1], ev, idx)
        IN  IF r.ret = Ok
            THEN [block_vec |-> [pushed EXCEPT ![cur + 1] = r.block],
                  block_idx_map |-> [block_idx_map EXCEPT ![idx] = cur + 1],
                  ret |-> Ok]
            ELSE [block_vec |-> pushed, block_idx_map |-> block_idx_map, ret |-> r.ret]

\* Cube::event_coord_to_block_idx: (slot index, channel)
event_coord_to_block_idx(c, ev) ==
    LET idx_y == ev.coord.y - (c.cube_idx_y \div BLOCK_SIZE_BIG)
        idx_x == ev.coord.x - (c.cube_idx_x \div BLOCK_SIZE_BIG)
    IN  << idx_y * BLOCK_SIZE_BIG + idx_x,
           IF IsSome(ev.coord.c) THEN Unwrap(ev.coord.c) ELSE 0 >>

\* Cube::set_event, as it would be if channel 1 were handed the index map of channel 0
Cube_set_event_SharedMap(c, ev) ==
    LET ic == event_coord_to_block_idx(c, ev)
        idx == ic[1]
        ch == ic[2]
    IN  CASE ch = 0 ->
               LET r == set_event_for_channel(c.blocks_r, c.block_idx_map_r, ev, idx)
               IN  [cube |-> [c EXCEPT !.blocks_r = r.block_vec,
                                       !.block_idx_map_r = r.block_idx_map],
                    ret |-> r.ret]
          [] ch = 1 ->
               LET r == set_event_for_channel(c.blocks_g, c.block_idx_map_r, ev, idx)
               IN  [cube |-> [c EXCEPT !.blocks_g = r.block_vec,
                                       !.block_idx_map_r = r.block_idx_map],
                    ret |-> r.ret]
          [] ch = 2 ->
               LET r == set_event_for_channel(c.blocks_b, c.block_idx_map_b, ev, idx)
               IN  [cube |-> [c EXCEPT !.blocks_b = r.block_vec,
                                       !.block_idx_map_b = r.block_idx_map],
                    ret |-> r.ret]
          [] OTHER -> [cube |-> c, ret |-> Panic]

\* Cube::set_event, as it would be if a value that is no channel were routed to
\* the B sequence instead of panicking
Cube_set_event_NoPanic(c, ev) ==
    LET ic == event_coord_to_block_idx(c, ev)
        idx == ic[1]
        ch == ic[2]
    IN  CASE ch = 0 ->
               LET r == set_event_for_channel(c.blocks_r, c.block_idx_map_r, ev, idx)
               IN  [cube |-> [c EXCEPT !.blocks_r = r.block_vec,
                                       !.block_idx_map_r = r.block_idx_map],
                    ret |-> r.ret]
          [] ch = 1 ->
               LET r == set_event_for_channel(c.blocks_g, c.block_idx_map_g, ev, idx)
               IN  [cube |-> [c EXCEPT !.blocks_g = r.block_vec,
                                       !.block_idx_map_g = r.block_idx_map],
                    ret |-> r.ret]
          [] OTHER ->
               LET r == set_event_for_channel(c.blocks_b, c.block_idx_map_b, ev, idx)
               IN  [cube |-> [c EXCEPT !.blocks_b = r.block_vec,
                                       !.block_idx_map_b = r.block_idx_map],
                    ret |-> r.ret]

\* Cube::set_event: the cube after the call and the call's result
Cube_set_event(c, ev) ==
    LET ic == event_coord_to_block_idx(c, ev)
        idx == ic[1]
        ch == ic[2]
    IN  CASE ch = 0 ->
               LET r == set_event_for_channel(c.blocks_r, c.block_idx_map_r, ev, idx)
               IN  [cube |-> [c EXCEPT !.blocks_r = r.block_vec,
                                       !.block_idx_map_r = r.block_idx_map],
                    ret |-> r.ret]
          [] ch = 1 ->
               LET r == set_event_for_channel(c.blocks_g, c.block_idx_map_g, ev, idx)
               IN  [cube |-> [c EXCEPT !.blocks_g = r.block_vec,
                                       !.block_idx_map_g = r.block_idx_map],
                    ret |-> r.ret]
          [] ch = 2 ->
               LET r == set_event_for_channel(c.blocks_b, c.block_idx_map_b, ev, idx)
               IN  [cube |-> [c EXCEPT !.blocks_b = r.block_vec,
                                       !.block_idx_map_b = r.block_idx_map],
                    ret |-> r.ret]
          [] OTHER -> [cube |-> c, ret |-> Panic]

(***************************************************************************)
(* ZigZag                                                                  *)
(***************************************************************************)
\* ZigZag::new: an iterator over the borrowed block, at position 0
ZigZagNew(order) == [order |-> order, idx |-> 0]

\* what an unchecked read outside the block's events array can yield: the bytes
\* found there read as an Option<EventCoordless>, or a fault
GarbageItems ==
    { [kind |-> "Some", item |-> None] }
    \cup { [kind |-> "Some", item |-> Some([d |-> 7, delta_t |-> 100])] }
    \cup { [kind |-> "Fault"] }

\* the read self.block.events.get_unchecked(v).as_ref(): the outcomes it can have
BlockReads(b, v) ==
    IF v \in DOMAIN b.events
    THEN { [kind |-> "Some", item |-> b.events[v]] }
    ELSE GarbageItems

\* the read *self.order.get_unchecked(k): the values it can yield. Outside the
\* table the value is whatever u16 lies there: a slot index or a larger number
OrderReads(z, k) ==
    IF k \in DOMAIN z.order
    THEN { z.order[k] }
    ELSE 0 .. NumSlots

\* ZigZag::next, as it would be if the order table were read at idx, not idx - 1
ZigZag_next_OffByOne(z, b) ==
    LET i == z.idx + 1
    IN  UNION { { [zigzag |-> [z EXCEPT !.idx = i], ret |-> r,
                   order_read |-> i, block_read |-> v] : r \in BlockReads(b, v) } :
                v \in OrderReads(z, i) }

\* ZigZag::next: the outcomes of one call, each with the iterator after the call,
\* the value returned and the indices read in the order table and in the block
ZigZag_next(z, b) ==
    LET i == z.idx + 1
    IN  UNION { { [zigzag |-> [z EXCEPT !.idx = i], ret |-> r,
                   order_read |-> i - 1, block_read |-> v] : r \in BlockReads(b, v) } :
                v \in OrderReads(z, i - 1) }

(***************************************************************************)
(* FrameValue conversion (src/framer/scale_intensity.rs)                   *)
(***************************************************************************)
\* D_SHIFT, the reconstruction table indexed by d: powers of two
D_SHIFT == [d \in 0 .. (DShiftLen - 1) |-> 2 ^ d]

\* an Intensity (f64) that is the quotient of two integers, held as that fraction
Frac(n, m) == [num |-> n, den |-> m]

\* event_to_intensity, as it would be if delta_t = 0 were divided by like any other
event_to_intensity_NoZeroCase(ev) ==
    IF ev.d >= DShiftLen
    THEN Frac(0, 1)
    ELSE Frac(D_SHIFT[ev.d], ev.delta_t)

\* event_to_intensity
event_to_intensity(ev) ==
    IF ev.d >= DShiftLen
    THEN Frac(0, 1)
    ELSE IF ev.delta_t = 0
         THEN Frac(D_SHIFT[ev.d], 1)
         ELSE Frac(D_SHIFT[ev.d], ev.delta_t)

\* SourceType, FramedViewMode and the types FrameValue is implemented for
SourceTypes == { "U8", "U16", "U32", "U64", "F32", "F64" }
FloatSourceTypes == { "F32", "F64" }
ViewModes == { "Intensity", "D", "DeltaT" }
OutputTypes == { "EventCoordless", "u8", "u16", "u32", "u64" }

\* the width in bits of an integer source type and of an integer output type
SourceBits(source_type) ==
    CASE source_type = "U8" -> 8 [] source_type = "U16" -> 16
      [] source_type = "U32" -> 32 [] source_type = "U64" -> 64
OutputBits(out) ==
    CASE out = "u8" -> 8 [] out = "u16" -> 16 [] out = "u32" -> 32 [] out = "u64" -> 64

\* the sample (num / den) * MAX(mul) / MAX(div) cast to the output type, MAX(w) being
\* the largest unsigned value of w bits and MAX(0) standing for no factor
Sample(n, m, mul, div) == [kind |-> "Sample", num |-> n, den |-> m, mul |-> mul, div |-> div]

\* get_frame_value, as it would be if a floating-point source type were rejected
\* before the view mode is looked at
get_frame_value_TodoFirst(out, ev, source_type, tpf, practical_d_max, delta_t_max, view_mode) ==
    IF out = "EventCoordless"
    THEN [kind |-> "Event", d |-> ev.d, delta_t |-> ev.delta_t]
    ELSE IF source_type \in FloatSourceTypes
    THEN Panic
    ELSE CASE view_mode = "Intensity" ->
                LET intensity == event_to_intensity(ev)
                IN  IF SourceBits(source_type) = OutputBits(out)
                    THEN Sample(intensity.num * tpf, intensity.den, 0, 0)
                    ELSE Sample(intensity.num * tpf, intensity.den,
                                OutputBits(out), SourceBits(source_type))
           [] view_mode = "D" -> Sample(ev.d, practical_d_max, OutputBits(out), 0)
           [] view_mode = "DeltaT" -> Sample(ev.delta_t, delta_t_max, OutputBits(out), 0)

\* FrameValue::get_frame_value of the output type out: the sample, or a panic (todo!())
get_frame_value(out, ev, source_type, tpf, practical_d_max, delta_t_max, view_mode) ==
    IF out = "EventCoordless"
    THEN [kind |-> "Event", d |-> ev.d, delta_t |-> ev.delta_t]
    ELSE CASE view_mode = "Intensity" ->
                LET intensity == event_to_intensity(ev)
                IN  IF source_type \in FloatSourceTypes
                    THEN Panic
                    ELSE IF SourceBits(source_type) = OutputBits(out)
                    THEN Sample(intensity.num * tpf, intensity.den, 0, 0)
                    ELSE Sample(intensity.num * tpf, intensity.den,
                                OutputBits(out), SourceBits(source_type))
           [] view_mode = "D" -> Sample(ev.d, practical_d_max, OutputBits(out), 0)
           [] view_mode = "DeltaT" -> Sample(ev.delta_t, delta_t_max, OutputBits(out), 0)

(***************************************************************************)
(* Inputs                                                                  *)
(***************************************************************************)
\* (d, delta_t) of the events supplied: the tests' event and Event::default()
EventValues == { [d |-> 7, delta_t |-> 100], [d |-> 0, delta_t |-> 0] }

\* Coord.c: absent, a colour channel, or a value that is no channel
ChannelInputs == { None, Some(0), Some(1), Some(2), Some(3) }

\* cube_idx_y, cube_idx_x handed to Cube::new (the tests' Cube::new(0, 0, 0))
CubeOrigins == { << 0, 0 >> }

\* the events whose coordinates lie in the tile of cube c
TileEvents(c) ==
    LET oy == c.cube_idx_y \div BLOCK_SIZE_BIG
        ox == c.cube_idx_x \div BLOCK_SIZE_BIG
    IN  { [coord |-> [y |-> y, x |-> x, c |-> ch], d |-> v.d, delta_t |-> v.delta_t] :
            y \in oy .. (oy + BLOCK_SIZE_BIG - 1),
            x \in ox .. (ox + BLOCK_SIZE_BIG - 1),
            ch \in ChannelInputs, v \in EventValues }

NoEvent == [coord |-> [y |-> 0, x |-> 0, c |-> None], d |-> 0, delta_t |-> 0]

\* the colour channels: R, G, B
Channels == 0 .. 2

\* no event accepted yet for any (channel, slot)
NoneAccepted == [p \in Channels \X Slots |-> << >>]

\* the log of accepted events after a call with event ev on cube c that returned r
Accept(log, c, ev, r) ==
    LET ic == event_coord_to_block_idx(c, ev)
    IN  IF r = Ok
        THEN [log EXCEPT ![<< ic[2], ic[1] >>] = Append(@, [d |-> ev.d, delta_t |-> ev.delta_t])]
        ELSE log

(***************************************************************************)
(* Specification of a Cube under Cube::set_event                           *)
(***************************************************************************)
\* the parts of the state a specification does not use
IdleGen == GenInit(0)
IdleLast == [op |-> "none"]

Init ==
    /\ BLOCK_SIZE_BIG = CubeSide
    /\ \E o \in CubeOrigins : cube = CubeNew(o[1], o[2], 0)
    /\ event = NoEvent
    /\ ret = NoCall
    /\ ncalls = 0
    /\ accepted = NoneAccepted
    /\ gen = IdleGen
    /\ block = BlockNew
    /\ zigzag = None
    /\ last = IdleLast

\* a call cube.set_event(ev); a panic ends the program
SetEvent ==
    /\ ncalls < MaxEvents
    /\ ret # Panic
    /\ \E ev \in TileEvents(cube) :
         LET r == Cube_set_event(cube, ev)
         IN  /\ cube' = r.cube
             /\ ret' = r.ret
             /\ event' = ev
    /\ ncalls' = ncalls + 1
    /\ UNCHANGED << BLOCK_SIZE_BIG, gen, block, zigzag, last, accepted >>

Next == SetEvent

Spec == Init /\ [][Next]_vars

(***************************************************************************)
(* Specification of a Cube under Cube::set_event with a valid channel,     *)
(* keeping the history of the events accepted for each (channel, slot).    *)
(***************************************************************************)
\* the events supplied here: in-tile coordinates, channel absent, 0, 1 or 2
LogEvents(c) == { ev \in TileEvents(c) : ev.coord.c \in { None, Some(0), Some(1), Some(2) } }

InitLog ==
    /\ BLOCK_SIZE_BIG = CubeSide
    /\ \E o \in CubeOrigins : cube = CubeNew(o[1], o[2], 0)
    /\ event = NoEvent
    /\ ret = NoCall
    /\ ncalls = 0
    /\ accepted = NoneAccepted
    /\ gen = IdleGen
    /\ block = BlockNew
    /\ zigzag = None
    /\ last = IdleLast

\* a call cube.set_event(ev); the event is logged if the call returns Ok
LogSetEvent ==
    /\ ncalls < MaxLogEvents
    /\ ret # Panic
    /\ \E ev \in LogEvents(cube) :
         LET r == Cube_set_event(cube, ev)
         IN  /\ cube' = r.cube
             /\ ret' = r.ret
             /\ event' = ev
             /\ accepted' = Accept(accepted, cube, ev, r.ret)
    /\ ncalls' = ncalls + 1
    /\ UNCHANGED << BLOCK_SIZE_BIG, gen, block, zigzag, last >>

NextLog == LogSetEvent

SpecLog == InitLog /\ [][NextLog]_vars

(***************************************************************************)
(* Specification of a Cube whose owner also writes through the public      *)
(* fields: Cube::blocks_r and Block::events are pub, so code outside the   *)
(* module can store an event in a slot without the index map knowing.      *)
(***************************************************************************)
\* the events supplied here: absent channel (routed to R) and channel 1
PubEvents(c) == { ev \in TileEvents(c) : ev.coord.c \in { None, Some(1) } }

\* the value stored by a write through the public fields
DirectValue == [d |-> 1, delta_t |-> 1]

\* number of writes through the public fields so far
Writes == IF last.op = "write" THEN last.n ELSE 0

InitPub ==
    /\ BLOCK_SIZE_BIG = CubeSide
    /\ \E o \in CubeOrigins : cube = CubeNew(o[1], o[2], 0)
    /\ event = NoEvent
    /\ ret = NoCall
    /\ ncalls = 0
    /\ accepted = NoneAccepted
    /\ gen = IdleGen
    /\ block = BlockNew
    /\ zigzag = None
    /\ last = IdleLast

\* a call cube.set_event(ev)
PubSetEvent ==
    /\ ncalls + Writes < MaxPubSteps
    /\ ret # Panic
    /\ \E ev \in PubEvents(cube) :
         LET r == Cube_set_event(cube, ev)
         IN  /\ cube' = r.cube
             /\ ret' = r.ret
             /\ event' = ev
    /\ ncalls' = ncalls + 1
    /\ UNCHANGED << BLOCK_SIZE_BIG, gen, block, zigzag, last, accepted >>

\* the statement cube.blocks_r[k].events[s] = Some(v) in code that owns the cube;
\* fill_count is private and stays as it was
DirectWrite ==
    /\ ncalls + Writes < MaxPubSteps
    /\ ret # Panic
    /\ \E k \in 1 .. Len(cube.blocks_r) : \E s \in Slots :
         cube' = [cube EXCEPT !.blocks_r[k].events[s] = Some(DirectValue)]
    /\ last' = [op |-> "write", n |-> Writes + 1]
    /\ UNCHANGED << BLOCK_SIZE_BIG, gen, block, zigzag, event, ret, ncalls, accepted >>

NextPub == PubSetEvent \/ DirectWrite

SpecPub == InitPub /\ [][NextPub]_vars

(***************************************************************************)
(* Specification of a Cube filled over several generations: events of one  *)
(* value for the R and B sequences, enough of them to fill two blocks,     *)
(* with the history of the events accepted.                                *)
(***************************************************************************)
\* the events supplied here: absent channel (routed to R) and channel 2, one value
FillEvents(c) ==
    { ev \in TileEvents(c) : ev.coord.c \in { None, Some(2) } /\ ev.d = 7 }

InitFill ==
    /\ BLOCK_SIZE_BIG = CubeSide
    /\ \E o \in CubeOrigins : cube = CubeNew(o[1], o[2], 0)
    /\ event = NoEvent
    /\ ret = NoCall
    /\ ncalls = 0
    /\ accepted = NoneAccepted
    /\ gen = IdleGen
    /\ block = BlockNew
    /\ zigzag = None
    /\ last = IdleLast

\* a call cube.set_event(ev)
FillSetEvent ==
    /\ ncalls < MaxFillEvents
    /\ ret # Panic
    /\ \E ev \in FillEvents(cube) :
         LET r == Cube_set_event(cube, ev)
         IN  /\ cube' = r.cube
             /\ ret' = r.ret
             /\ event' = ev
             /\ accepted' = Accept(accepted, cube, ev, r.ret)
    /\ ncalls' = ncalls + 1
    /\ UNCHANGED << BLOCK_SIZE_BIG, gen, block, zigzag, last >>

NextFill == FillSetEvent

SpecFill == InitFill /\ [][NextFill]_vars

(***************************************************************************)
(* Specification of a Cube under single Cube::set_event calls and under    *)
(* pairs of calls, each pair also run in the opposite order on a copy of   *)
(* the cube so that the two orders can be compared.                        *)
(***************************************************************************)
\* the events supplied here: absent channel (routed to R) and channel 1
PairEvents(c) == { ev \in TileEvents(c) : ev.coord.c \in { None, Some(1) } }

\* cube.set_event(e1) followed by cube.set_event(e2) on cube c: the two results and
\* the cube afterwards; a panic in the first call ends the program
RunPair(c, e1, e2) ==
    LET r1 == Cube_set_event(c, e1)
    IN  IF r1.ret = Panic
        THEN [first |-> Panic, second |-> NoCall, cube |-> r1.cube]
        ELSE LET r2 == Cube_set_event(r1.cube, e2)
             IN  [first |-> r1.ret, second |-> r2.ret, cube |-> r2.cube]

InitPair ==
    /\ BLOCK_SIZE_BIG = CubeSide
    /\ \E o \in CubeOrigins : cube = CubeNew(o[1], o[2], 0)
    /\ event = NoEvent
    /\ ret = NoCall
    /\ ncalls = 0
    /\ accepted = NoneAccepted
    /\ gen = IdleGen
    /\ block = BlockNew
    /\ zigzag = None
    /\ last = IdleLast

\* a call cube.set_event(ev)
PairSetEvent ==
    /\ ncalls < MaxPairCalls
    /\ ret # Panic
    /\ \E ev \in PairEvents(cube) :
         LET r == Cube_set_event(cube, ev)
         IN  /\ cube' = r.cube
             /\ ret' = r.ret
             /\ event' = ev
             /\ accepted' = Accept(accepted, cube, ev, r.ret)
    /\ ncalls' = ncalls + 1
    /\ last' = [op |-> "single"]
    /\ UNCHANGED << BLOCK_SIZE_BIG, gen, block, zigzag >>

\* cube.set_event(e1); cube.set_event(e2), and on a clone of the cube taken before
\* them clone.set_event(e2); clone.set_event(e1)
SetEventPair ==
    /\ ncalls + 1 < MaxPairCalls
    /\ ret # Panic
    /\ \E e1 \in PairEvents(cube) : \E e2 \in PairEvents(cube) :
         LET ab == RunPair(cube, e1, e2)
             ba == RunPair(cube, e2, e1)
             mid == Cube_set_event(cube, e1)
         IN  /\ cube' = ab.cube
             /\ ret' = ab.second
             /\ event' = e2
             /\ accepted' = Accept(Accept(accepted, cube, e1, ab.first), mid.cube, e2, ab.second)
             /\ last' = [op |-> "pair", before |-> cube, e1 |-> e1, e2 |-> e2, ab |-> ab, ba |-> ba]
    /\ ncalls' = ncalls + 2
    /\ UNCHANGED << BLOCK_SIZE_BIG, gen, block, zigzag >>

NextPair == PairSetEvent \/ SetEventPair

SpecPair == InitPair /\ [][NextPair]_vars

(***************************************************************************)
(* Specification of one Block under Block::set_event and ZigZag traversal  *)
(***************************************************************************)
\* the order tables handed to ZigZag::new: the static table and raster order
OrderTables == { ZIGZAG_ORDER, [k \in Slots |-> k] }

\* the events handed to Block::set_event for slot idx, as a Cube would
BlockEvents(idx) ==
    { [coord |-> [y |-> idx \div BLOCK_SIZE_BIG, x |-> idx % BLOCK_SIZE_BIG, c |-> None],
       d |-> v.d, delta_t |-> v.delta_t] : v \in EventValues }

\* the program has stopped: a panic or a memory fault
Stopped == last.op # "none" /\ last.op # "new" /\ last.op # "drop"
           /\ last.ret.kind \in { "Panic", "Fault" }

InitBlock ==
    /\ BLOCK_SIZE_BIG = BlockSide
    /\ block = BlockNew
    /\ zigzag = None
    /\ last = IdleLast
    /\ ncalls = 0
    /\ gen = IdleGen
    /\ cube = CubeNew(0, 0, 0)
    /\ event = NoEvent
    /\ ret = NoCall
    /\ accepted = NoneAccepted

\* a call block.set_event(&ev, idx); the block is not borrowed by an iterator
BlockSetEvent ==
    /\ ~Stopped
    /\ zigzag = None
    /\ ncalls < MaxBlockCalls
    /\ \E idx \in 0 .. NumSlots : \E ev \in BlockEvents(idx) :
         LET r == Block_set_event(block, ev, idx)
         IN  /\ block' = r.block
             /\ last' = [op |-> "set_event", idx |-> idx, event |-> ev, ret |-> r.ret]
    /\ ncalls' = ncalls + 1
    /\ UNCHANGED << BLOCK_SIZE_BIG, gen, zigzag, cube, event, ret, accepted >>

\* ZigZag::new(&block, order); an earlier iterator is dropped
ZigZagCreate ==
    /\ ~Stopped
    /\ \E order \in OrderTables : zigzag' = Some(ZigZagNew(order))
    /\ last' = [op |-> "new"]
    /\ UNCHANGED << BLOCK_SIZE_BIG, gen, block, ncalls, cube, event, ret, accepted >>

\* a call zigzag.next()
ZigZagNext ==
    /\ ~Stopped
    /\ IsSome(zigzag)
    /\ Unwrap(zigzag).idx < NumSlots + MaxOverrun
    /\ \E r \in ZigZag_next(Unwrap(zigzag), block) :
         /\ zigzag' = Some(r.zigzag)
         /\ last' = [op |-> "next", ret |-> r.ret, order_read |-> r.order_read,
                     block_read |-> r.block_read]
    /\ UNCHANGED << BLOCK_SIZE_BIG, gen, block, ncalls, cube, event, ret, accepted >>

\* the iterator goes out of scope, which ends its borrow of the block
ZigZagDrop ==
    /\ ~Stopped
    /\ IsSome(zigzag)
    /\ zigzag' = None
    /\ last' = [op |-> "drop"]
    /\ UNCHANGED << BLOCK_SIZE_BIG, gen, block, ncalls, cube, event, ret, accepted >>

NextBlock == BlockSetEvent \/ ZigZagCreate \/ ZigZagNext \/ ZigZagDrop

SpecBlock == InitBlock /\ [][NextBlock]_vars

(***************************************************************************)
(* Specification of gen_zigzag_order, one loop iteration per step          *)
(***************************************************************************)
InitGen ==
    /\ BLOCK_SIZE_BIG \in 1 .. MaxSide
    /\ gen = GenInit(BLOCK_SIZE_BIG)
    /\ block = BlockNew
    /\ zigzag = None
    /\ last = IdleLast
    /\ ncalls = 0
    /\ cube = CubeNew(0, 0, 0)
    /\ event = NoEvent
    /\ ret = NoCall
    /\ accepted = NoneAccepted

\* one iteration of the loop of gen_zigzag_order
GenLoop ==
    /\ gen.pc = "loop"
    /\ gen' = GenStep(gen, BLOCK_SIZE_BIG)
    /\ UNCHANGED << BLOCK_SIZE_BIG, block, zigzag, last, ncalls, cube, event, ret, accepted >>

NextGen == GenLoop

SpecGen == InitGen /\ [][NextGen]_vars

\* the loop is sequential code that runs until it breaks: an iteration that can be
\* taken is taken
SpecGenFair == SpecGen /\ WF_vars(GenLoop)

(***************************************************************************)
(* Specification of the FrameValue conversions: the arguments are chosen   *)
(* at the start and one of the functions is applied to them.               *)
(***************************************************************************)
\* the events converted: d inside, at and beyond the end of D_SHIFT
FrameEvents ==
    { [coord |-> [y |-> 0, x |-> 0, c |-> None], d |-> d, delta_t |-> dt] :
        d \in 0 .. (DShiftLen + 1), dt \in 0 .. MaxDeltaT }

\* tpf, practical_d_max and delta_t_max of a call
FrameParams ==
    { [tpf |-> tpf, practical_d_max |-> DShiftLen, delta_t_max |-> MaxDeltaT] : tpf \in { 1, 255 } }

InitFrame ==
    /\ BLOCK_SIZE_BIG = CubeSide
    /\ event \in FrameEvents
    /\ \E out \in OutputTypes : \E source_type \in SourceTypes :
       \E view_mode \in ViewModes : \E p \in FrameParams :
         last = [op |-> "args", out |-> out, source_type |-> source_type,
                 view_mode |-> view_mode, params |-> p]
    /\ ret = NoCall
    /\ ncalls = 0
    /\ accepted = NoneAccepted
    /\ cube = CubeNew(0, 0, 0)
    /\ gen = IdleGen
    /\ block = BlockNew
    /\ zigzag = None

\* a call event_to_intensity(&event)
EventToIntensity ==
    /\ last.op = "args"
    /\ last' = [op |-> "event_to_intensity", ret |-> event_to_intensity(event)]
    /\ UNCHANGED << BLOCK_SIZE_BIG, gen, block, zigzag, cube, event, ret, ncalls, accepted >>

\* a call <out as FrameValue>::get_frame_value(&event, source_type, tpf, ..)
GetFrameValue ==
    /\ last.op = "args"
    /\ last' = [last EXCEPT !.op = "get_frame_value"]
                 @@ [ret |-> get_frame_value(last.out, event, last.source_type,
                                             last.params.tpf, last.params.practical_d_max,
                                             last.params.delta_t_max, last.view_mode)]
    /\ UNCHANGED << BLOCK_SIZE_BIG, gen, block, zigzag, cube, event, ret, ncalls, accepted >>

NextFrame == EventToIntensity \/ GetFrameValue

SpecFrame == InitFrame /\ [][NextFrame]_vars

(***************************************************************************)
(* Properties                                                              *)
(***************************************************************************)
\* the block sequence and the index map of channel ch of cube c
Blocks(c, ch) == CASE ch = 0 -> c.blocks_r [] ch = 1 -> c.blocks_g [] ch = 2 -> c.blocks_b
IdxMap(c, ch) ==
    CASE ch = 0 -> c.block_idx_map_r [] ch = 1 -> c.block_idx_map_g [] ch = 2 -> c.block_idx_map_b

\* the channel an event selects (absent is 0) and its slot in the tile of cube c
ChannelOf(ev) == IF ev.coord.c = None THEN 0 ELSE ev.coord.c[1]
SlotOf(c, ev) ==
    (ev.coord.y - c.cube_idx_y \div BLOCK_SIZE_BIG) * BLOCK_SIZE_BIG
        + (ev.coord.x - c.cube_idx_x \div BLOCK_SIZE_BIG)

\* the occupied slots of a block
Occupied(b) == { s \in DOMAIN b.events : b.events[s] # None }

\* the step is a call of Cube::set_event / of Block::set_event
CubeCall == ncalls' = ncalls + 1 /\ ret' # NoCall
BlockCall == ncalls' = ncalls + 1 /\ last'.op = "set_event"

Max(a, b) == IF a >= b THEN a ELSE b

\* C1: Block::set_event on an empty slot returns Ok, stores the event's (d, delta_t)
\* in that slot and adds 1 to fill_count, every other slot unchanged; on an occupied
\* slot it returns AlreadyExists{idx} for that slot and leaves the block unchanged.
C1_SingleFill ==
    [][ (BlockCall /\ last'.idx \in Slots) =>
          LET idx == last'.idx
              ev == last'.event
          IN  IF block.events[idx] = None
              THEN /\ last'.ret = Ok
                   /\ block'.events[idx] = Some([d |-> ev.d, delta_t |-> ev.delta_t])
                   /\ block'.fill_count = block.fill_count + 1
                   /\ \A s \in Slots \ { idx } : block'.events[s] = block.events[s]
              ELSE /\ last'.ret = [kind |-> "AlreadyExists", idx |-> idx]
                   /\ block' = block ]_vars

\* a second call on a slot, with another event than the one stored, was refused
C1_Witness ==
    /\ last.op = "set_event"
    /\ last.ret.kind = "AlreadyExists"
    /\ last.ret.idx = last.idx
    /\ block.events[last.idx] # Some([d |-> last.event.d, delta_t |-> last.event.delta_t])
    /\ block.fill_count = 2

\* C2: a successful Cube::set_event for channel c and slot s stores the event in
\* blocks[c][current] at slot s, current being block_idx_map[c][s] before the call,
\* adds exactly 1 to block_idx_map[c][s], and changes no other index-map entry and
\* no other slot of any block.
C2_SetEventEffect ==
    [][ (CubeCall /\ ret' = Ok) =>
          LET ch == ChannelOf(event')
              s == SlotOf(cube, event')
              current == IdxMap(cube, ch)[s]
              stored == Some([d |-> event'.d, delta_t |-> event'.delta_t])
          IN  /\ current < Len(Blocks(cube', ch))
              /\ Blocks(cube', ch)[current + 1].events[s] = stored
              /\ IdxMap(cube', ch) = [IdxMap(cube, ch) EXCEPT ![s] = current + 1]
              /\ \A c2 \in Channels \ { ch } :
                    /\ IdxMap(cube', c2) = IdxMap(cube, c2)
                    /\ Blocks(cube', c2) = Blocks(cube, c2)
              /\ \A k \in 1 .. Len(Blocks(cube', ch)) :
                    LET before == IF k <= Len(Blocks(cube, ch))
                                  THEN Blocks(cube, ch)[k].events
                                  ELSE [s2 \in Slots |-> None]
                    IN  Blocks(cube', ch)[k].events
                          = IF k = current + 1 THEN [before EXCEPT ![s] = stored] ELSE before ]_vars

\* the last call stored a second-generation event: it went to block 1 of channel 2
C2_Witness ==
    /\ ret = Ok
    /\ ChannelOf(event) = 2
    /\ cube.block_idx_map_b[SlotOf(cube, event)] = 2
    /\ Len(cube.blocks_b) = 2
    /\ cube.blocks_b[2].events[SlotOf(cube, event)] = Some([d |-> event.d, delta_t |-> event.delta_t])
    /\ cube.blocks_b[1].events[SlotOf(cube, event)] # cube.blocks_b[2].events[SlotOf(cube, event)]

\* C3, as claimed: block_idx_map[c][s] < len(blocks[c]) for every channel and slot.
C3_Original ==
    \A ch \in Channels : \A s \in Slots : IdxMap(cube, ch)[s] < Len(Blocks(cube, ch))

\* C3, amended: in every reachable state block_idx_map[c][s] <= len(blocks[c]); it
\* equals the length once slot s is occupied in the last block, and the block it
\* then names is pushed by the next call for that slot.
C3_IndexWithinLength ==
    \A ch \in Channels : \A s \in Slots :
        /\ IdxMap(cube, ch)[s] <= Len(Blocks(cube, ch))
        /\ (IdxMap(cube, ch)[s] = Len(Blocks(cube, ch)))
              <=> (Blocks(cube, ch)[Len(Blocks(cube, ch))].events[s] # None)

\* an index map entry equal to the length of its channel's sequence
C3_Witness ==
    /\ ret = Ok
    /\ cube.block_idx_map_r[0] = 2
    /\ Len(cube.blocks_r) = 2

\* every event accepted so far was for slot s of channel 0, and none was refused
OnlySlot(s) ==
    /\ ret \in { NoCall, Ok }
    /\ \A ch \in Channels : \A k \in 1 .. Len(Blocks(cube, ch)) :
          Occupied(Blocks(cube, ch)[k]) \subseteq (IF ch = 0 THEN { s } ELSE { })
    /\ Cardinality({ k \in 1 .. Len(cube.blocks_r) : s \in Occupied(cube.blocks_r[k]) }) = ncalls

\* C4, as claimed: with events supplied for one slot of channel 0 only, channel 0
\* gains one block per BLOCK_SIZE_BIG same-slot events (whatever the offset, at most
\* 1 + k / BLOCK_SIZE_BIG blocks after k events) and channels 1 and 2 keep length 1.
C4_Original ==
    \A s \in Slots :
        OnlySlot(s) =>
            /\ Len(cube.blocks_r) <= 1 + ncalls \div BLOCK_SIZE_BIG
            /\ Len(cube.blocks_g) = 1
            /\ Len(cube.blocks_b) = 1

\* C4, amended: with events supplied for one slot of channel 0 only, channel 0 gains
\* one block per additional same-slot event (after k events it has max(1, k) blocks)
\* and channels 1 and 2 keep length 1.
C4_GrowthPerEvent ==
    \A s \in Slots :
        OnlySlot(s) =>
            /\ Len(cube.blocks_r) = Max(1, ncalls)
            /\ Len(cube.blocks_g) = 1
            /\ Len(cube.blocks_b) = 1

\* three events for one slot of channel 0: three blocks
C4_Witness ==
    /\ OnlySlot(BLOCK_SIZE_BIG + 1)
    /\ ncalls = 3
    /\ Len(cube.blocks_r) = 3

\* only channel 0 has received events, and its first block is filled
C5_FilledRedOnly ==
    /\ is_filled(cube.blocks_r[1])
    /\ \A k \in 1 .. Len(cube.blocks_r) : k > 1 => Occupied(cube.blocks_r[k]) = { }

\* C5: a Cube::set_event call whose event selects channel c (absent is 0) leaves the
\* block sequence and the index map of the two other channels unchanged; with all
\* slots of channel 0's first block filled by such calls alone, channels 1 and 2 are
\* unfilled and of length 1.
C5_ChannelIndependence ==
    /\ [][ CubeCall =>
             \A c2 \in Channels \ { ChannelOf(event') } :
                 /\ Blocks(cube', c2) = Blocks(cube, c2)
                 /\ IdxMap(cube', c2) = IdxMap(cube, c2) ]_vars
    /\ [](  (C5_FilledRedOnly /\ ncalls = NumSlots /\ ret = Ok) =>
              /\ Len(cube.blocks_g) = 1 /\ ~is_filled(cube.blocks_g[1])
              /\ Len(cube.blocks_b) = 1 /\ ~is_filled(cube.blocks_b[1]) )

\* channel 0's first block filled, the last event with an absent channel
C5_Witness ==
    /\ C5_FilledRedOnly
    /\ ncalls = NumSlots
    /\ ret = Ok
    /\ event.coord.c = None
    /\ cube.blocks_g = << BlockNew >>
    /\ cube.blocks_b = << BlockNew >>

\* C6: each block's fill_count is the number of its occupied slots, so is_filled()
\* holds exactly when all slots are occupied: false before the last distinct slot
\* is set, true after it, and a filled block stays filled.
C6_FillCount ==
    /\ [](\A ch \in Channels : \A k \in 1 .. Len(Blocks(cube, ch)) :
            LET b == Blocks(cube, ch)[k]
            IN  /\ b.fill_count = Cardinality(Occupied(b))
                /\ is_filled(b) <=> (Occupied(b) = Slots))
    /\ [][ \A ch \in Channels : \A k \in 1 .. Len(Blocks(cube, ch)) :
             is_filled(Blocks(cube, ch)[k]) =>
                 /\ k <= Len(Blocks(cube', ch))
                 /\ is_filled(Blocks(cube', ch)[k]) ]_vars

\* the last call set the last empty slot of a block of channel 1, which is now filled
C6_Witness ==
    /\ ret = Ok
    /\ ChannelOf(event) = 1
    /\ is_filled(cube.blocks_g[1])
    /\ cube.blocks_g[1].fill_count = NumSlots
    /\ ~is_filled(cube.blocks_r[1])

\* C7: over Cube::set_event calls a channel's block sequence never shrinks or
\* reorders, and a slot that holds an event keeps that (d, delta_t) in every later
\* state: it is never overwritten or cleared.
C7_WriteOnce ==
    [][ \A ch \in Channels :
          /\ Len(Blocks(cube', ch)) >= Len(Blocks(cube, ch))
          /\ \A k \in 1 .. Len(Blocks(cube, ch)) : \A s \in Slots :
                Blocks(cube, ch)[k].events[s] # None =>
                    Blocks(cube', ch)[k].events[s] = Blocks(cube, ch)[k].events[s] ]_vars

\* a slot holds two generations with different values: the later event was not
\* written over the earlier one
C7_Witness ==
    /\ Len(cube.blocks_r) = 2
    /\ cube.blocks_r[1].events[0] = Some([d |-> 7, delta_t |-> 100])
    /\ cube.blocks_r[2].events[0] = Some([d |-> 0, delta_t |-> 0])
    /\ cube.block_idx_map_r[1] = 1

\* C8: the table gen_zigzag_order returns for side N is a permutation of [0, N*N);
\* its first entry is slot 0 and its last entry is slot N*N - 1.
C8_ZigZagBijection ==
    gen.pc = "done" =>
        /\ DOMAIN gen.order = Slots
        /\ { gen.order[k] : k \in Slots } = Slots
        /\ gen.order[0] = 0
        /\ gen.order[NumSlots - 1] = NumSlots - 1

\* a finished table that is not the raster order
C8_Witness ==
    /\ gen.pc = "done"
    /\ BLOCK_SIZE_BIG = 4
    /\ gen.order[2] = 4
    /\ gen.order[NumSlots - 3] = 11

\* C9: the k-th item (k = 0 .. N*N - 1) a ZigZag iterator yields is the content of
\* block slot order[k], the stored event or absence, and next() leaves the block
\* as it was.
C9_ZigZagOrder ==
    /\ []( (last.op = "next" /\ Unwrap(zigzag).idx <= NumSlots) =>
             LET k == Unwrap(zigzag).idx - 1
             IN  last.ret = [kind |-> "Some", item |-> block.events[Unwrap(zigzag).order[k]]] )
    /\ [][ last'.op = "next" => block' = block ]_vars

\* under the static table, position k yielded the event of slot ZIGZAG_ORDER[k],
\* which is not slot k, whose content differs
C9_Witness ==
    /\ last.op = "next"
    /\ Unwrap(zigzag).order = ZIGZAG_ORDER
    /\ Unwrap(zigzag).idx = 3
    /\ ZIGZAG_ORDER[2] = 3
    /\ last.ret = [kind |-> "Some", item |-> Some([d |-> 7, delta_t |-> 100])]
    /\ block.events[3] = Some([d |-> 7, delta_t |-> 100])
    /\ block.events[2] = Some([d |-> 0, delta_t |-> 0])

\* C10, as claimed: the iterator yields exactly N*N items: a call of next() after
\* them yields no item, and no call reads the order table or the block at an index
\* above N*N - 1.
C10_Original ==
    last.op = "next" =>
        /\ last.order_read <= NumSlots - 1
        /\ last.block_read <= NumSlots - 1
        /\ Unwrap(zigzag).idx > NumSlots => last.ret.kind = "None"

\* the block the index map names for the event's (channel, slot) exists and already
\* holds an event in that slot: Block::set_event will refuse the write
SlotTaken(c, ev) ==
    LET ch == ChannelOf(ev)
        s == SlotOf(c, ev)
        cur == IdxMap(c, ch)[s]
    IN  /\ cur < Len(Blocks(c, ch))
        /\ Blocks(c, ch)[cur + 1].events[s] # None

\* C11: when the Block::set_event that Cube::set_event delegates to returns
\* AlreadyExists, Cube::set_event returns that error with the slot as idx, does not
\* advance block_idx_map, and leaves the whole cube as it was before the call; it
\* returns AlreadyExists in no other case.
C11_ErrorPropagated ==
    [][ CubeCall =>
          IF SlotTaken(cube, event')
          THEN /\ ret' = [kind |-> "AlreadyExists", idx |-> SlotOf(cube, event')]
               /\ IdxMap(cube', ChannelOf(event')) = IdxMap(cube, ChannelOf(event'))
               /\ cube' = cube
          ELSE ret'.kind # "AlreadyExists" ]_vars

\* a slot of the current block was written through the public field, and the call
\* for that slot was refused with the slot's index; the stored value is the written one
C11_Witness ==
    /\ Writes = 1
    /\ ret = [kind |-> "AlreadyExists", idx |-> 3]
    /\ SlotOf(cube, event) = 3
    /\ cube.block_idx_map_r[3] = 0
    /\ cube.blocks_r[1].events[3] = Some(DirectValue)
    /\ cube.block_idx_map_r[0] = 1

\* the channel value of an event is absent or one of 0, 1, 2
ValidChannel(ev) == ev.coord.c \in { None, Some(0), Some(1), Some(2) }

\* C12: Cube::set_event routes an event with an absent channel or channel 0 to the R
\* sequence and index map, channel 1 to G and channel 2 to B, leaving the other two
\* alone; any other channel value panics, no BlockError is returned and no block or
\* index map is modified.
C12_ChannelRouting ==
    [][ CubeCall =>
          LET c == event'.coord.c
          IN  CASE c \in { None, Some(0) } ->
                     /\ ret' # Panic
                     /\ cube'.blocks_r # cube.blocks_r
                     /\ cube'.block_idx_map_r # cube.block_idx_map_r
                     /\ cube' = [cube EXCEPT !.blocks_r = cube'.blocks_r,
                                             !.block_idx_map_r = cube'.block_idx_map_r]
                [] c = Some(1) ->
                     /\ ret' # Panic
                     /\ cube'.blocks_g # cube.blocks_g
                     /\ cube'.block_idx_map_g # cube.block_idx_map_g
                     /\ cube' = [cube EXCEPT !.blocks_g = cube'.blocks_g,
                                             !.block_idx_map_g = cube'.block_idx_map_g]
                [] c = Some(2) ->
                     /\ ret' # Panic
                     /\ cube'.blocks_b # cube.blocks_b
                     /\ cube'.block_idx_map_b # cube.block_idx_map_b
                     /\ cube' = [cube EXCEPT !.blocks_b = cube'.blocks_b,
                                             !.block_idx_map_b = cube'.block_idx_map_b]
                [] OTHER ->
                     /\ ret' = Panic
                     /\ cube' = cube ]_vars

\* a call with channel 3 panicked, after events accepted by the G and B sequences
C12_Witness ==
    /\ ret = Panic
    /\ event.coord.c = Some(3)
    /\ Occupied(cube.blocks_g[1]) # { }
    /\ Occupied(cube.blocks_b[1]) # { }
    /\ Occupied(cube.blocks_r[1]) # { }

\* every block of channel ch of cube c holds an event at slot s
AllHold(c, ch, s) == \A k \in 1 .. Len(Blocks(c, ch)) : Blocks(c, ch)[k].events[s] # None

\* C16: a Cube::set_event call appends a block to the selected channel's sequence
\* exactly when, before the call, every block of that channel holds an event at the
\* event's slot; the appended block was empty (after the call it holds this event
\* alone); otherwise the length is unchanged; at most one block is appended per call
\* and the other channels' lengths stay as they were.
C16_AppendWhenAllHold ==
    [][ (CubeCall /\ ValidChannel(event')) =>
          LET ch == ChannelOf(event')
              s == SlotOf(cube, event')
              n == Len(Blocks(cube, ch))
          IN  /\ IF AllHold(cube, ch, s)
                 THEN /\ Len(Blocks(cube', ch)) = n + 1
                      /\ Occupied(Blocks(cube', ch)[n + 1]) = { s }
                 ELSE Len(Blocks(cube', ch)) = n
              /\ \A c2 \in Channels \ { ch } : Len(Blocks(cube', c2)) = Len(Blocks(cube, c2)) ]_vars

\* the last call appended the second block of channel 1 while another slot of the
\* first block was still empty
C16_Witness ==
    /\ ret = Ok
    /\ ChannelOf(event) = 1
    /\ Len(cube.blocks_g) = 2
    /\ Occupied(cube.blocks_g[2]) = { SlotOf(cube, event) }
    /\ Occupied(cube.blocks_g[1]) # Slots
    /\ ncalls = 2

\* the largest number of events accepted for a single slot of channel ch
MaxAccepted(ch) ==
    CHOOSE n \in 0 .. ncalls :
        /\ \E s \in Slots : Len(accepted[<< ch, s >>]) = n
        /\ \A s \in Slots : Len(accepted[<< ch, s >>]) <= n

\* C17: each channel's block sequence has max(1, the largest number of events
\* accepted for a single slot of that channel) blocks: one block in a new cube, still
\* one after every slot was filled once, one more for each event that repeats a slot
\* beyond the existing blocks.
C17_LengthIsMaxAccepted ==
    \A ch \in Channels : Len(Blocks(cube, ch)) = Max(1, MaxAccepted(ch))

\* every slot of channel 0 was filled once, which left one block, and then one slot
\* was repeated twice: three blocks
C17_Witness ==
    /\ ncalls = NumSlots + 2
    /\ \A s \in Slots : Len(accepted[<< 0, s >>]) = (IF s = 1 THEN 3 ELSE 1)
    /\ is_filled(cube.blocks_r[1])
    /\ Len(cube.blocks_r) = 3
    /\ Len(cube.blocks_b) = 1

\* C18: from Cube::new, under Cube::set_event calls with in-tile coordinates, no call
\* returns AlreadyExists and every call with a channel that is absent, 0, 1 or 2
\* returns Ok: the block that block_idx_map[c][s] names either does not exist yet
\* (it is pushed by the call) or has slot s empty.
C18_NoAlreadyExists ==
    /\ ret.kind # "AlreadyExists"
    /\ (ret # NoCall /\ ValidChannel(event)) => ret = Ok
    /\ \A ch \in Channels : \A s \in Slots :
          IdxMap(cube, ch)[s] < Len(Blocks(cube, ch)) =>
              Blocks(cube, ch)[IdxMap(cube, ch)[s] + 1].events[s] = None

\* the third event for one slot of channel 0 was accepted while the other slots of
\* the first block are still empty
C18_Witness ==
    /\ ret = Ok
    /\ ncalls = 3
    /\ Len(accepted[<< 0, SlotOf(cube, event) >>]) = 3
    /\ cube.blocks_r[1].fill_count = 1

\* C19: for every channel c and slot s, block_idx_map[c][s] is the number of events
\* accepted so far for (c, s); blocks[c][k] has slot s occupied if and only if
\* k < block_idx_map[c][s]; and the j-th event accepted for (c, s) is stored, with its
\* d and delta_t, in blocks[c][j-1] at slot s.
C19_GenerationOrder ==
    \A ch \in Channels : \A s \in Slots :
        LET log == accepted[<< ch, s >>]
        IN  /\ IdxMap(cube, ch)[s] = Len(log)
            /\ \A k \in 1 .. Len(Blocks(cube, ch)) :
                  (Blocks(cube, ch)[k].events[s] # None) <=> (k - 1 < IdxMap(cube, ch)[s])
            /\ \A j \in 1 .. Len(log) :
                  /\ j <= Len(Blocks(cube, ch))
                  /\ Blocks(cube, ch)[j].events[s] = Some(log[j])

\* two events with different values accepted for one slot of channel 2: the first is
\* in block 0, the second in block 1
C19_Witness ==
    /\ accepted[<< 2, 1 >>] = << [d |-> 0, delta_t |-> 0], [d |-> 7, delta_t |-> 100] >>
    /\ cube.block_idx_map_b[1] = 2
    /\ cube.blocks_b[1].events[1] = Some([d |-> 0, delta_t |-> 0])
    /\ cube.blocks_b[2].events[1] = Some([d |-> 7, delta_t |-> 100])
    /\ cube.block_idx_map_b[0] = 1

\* C20: every slot occupied in blocks[c][k+1] is occupied in blocks[c][k], so if
\* blocks[c][k+1] is filled then blocks[c][k] is filled; a block that is not filled
\* has no filled block after it, in this state and in the next.
C20_FilledPrefix ==
    /\ [](\A ch \in Channels : \A k \in 1 .. (Len(Blocks(cube, ch)) - 1) :
            /\ Occupied(Blocks(cube, ch)[k + 1]) \subseteq Occupied(Blocks(cube, ch)[k])
            /\ is_filled(Blocks(cube, ch)[k + 1]) => is_filled(Blocks(cube, ch)[k]))
    /\ [][ \A ch \in Channels : \A k \in 1 .. (Len(Blocks(cube', ch)) - 1) :
             (is_filled(Blocks(cube', ch)[k + 1]) /\ k + 1 <= Len(Blocks(cube, ch))
                 /\ ~is_filled(Blocks(cube, ch)[k + 1]))
               => is_filled(Blocks(cube, ch)[k]) ]_vars

\* the last call filled the second block of channel 0, over a filled first block,
\* while channel 2 has a second block holding one slot over an unfilled first block
C20_Witness ==
    /\ Len(cube.blocks_r) = 2
    /\ is_filled(cube.blocks_r[2])
    /\ is_filled(cube.blocks_r[1])
    /\ ret = Ok
    /\ ChannelOf(event) = 0

\* C14: event_to_intensity returns 0 for every event whose d is at or beyond the
\* length of D_SHIFT, whatever delta_t is; for d inside the table it returns
\* D_SHIFT[d] itself when delta_t = 0 (no division by zero) and D_SHIFT[d] / delta_t
\* when delta_t > 0.
C14_EventToIntensity ==
    last.op = "event_to_intensity" =>
        /\ last.ret.den # 0
        /\ IF event.d >= DShiftLen
           THEN last.ret.num = 0
           ELSE IF event.delta_t = 0
                THEN last.ret.num = D_SHIFT[event.d] * last.ret.den
                ELSE last.ret.num * event.delta_t = D_SHIFT[event.d] * last.ret.den

\* d is the last index of the table and delta_t is 0: the result is the table entry
C14_Witness ==
    /\ last.op = "event_to_intensity"
    /\ event.d = DShiftLen - 1
    /\ event.delta_t = 0
    /\ last.ret = Frac(D_SHIFT[DShiftLen - 1], 1)

\* C15, as claimed: with source type F32 or F64, get_frame_value panics and returns
\* no sample, for every output type and every view mode.
C15_Original ==
    (last.op = "get_frame_value" /\ last.source_type \in FloatSourceTypes) =>
        last.ret = Panic

\* C15, amended: with source type F32 or F64, get_frame_value panics exactly in the
\* Intensity view mode of the outputs u8, u16, u32 and u64; in the D and DeltaT view
\* modes, and for the EventCoordless output in every view mode, the source type is
\* not consulted and the call returns the sample it returns for source type U8.
\* With an integer source type it never panics.
C15_FloatSourceIntensityOnly ==
    last.op = "get_frame_value" =>
        IF last.source_type \in FloatSourceTypes
        THEN IF last.view_mode = "Intensity" /\ last.out # "EventCoordless"
             THEN last.ret = Panic
             ELSE /\ last.ret # Panic
                  /\ last.ret = get_frame_value(last.out, event, "U8", last.params.tpf,
                                                last.params.practical_d_max,
                                                last.params.delta_t_max, last.view_mode)
        ELSE last.ret # Panic

\* the Intensity view of a u16 output with an F64 source panicked
C15_Witness ==
    /\ last.op = "get_frame_value"
    /\ last.source_type = "F64"
    /\ last.view_mode = "Intensity"
    /\ last.out = "u16"
    /\ last.ret = Panic
    /\ event.d = 2

\* two events select the same channel and the same slot of cube c
SameTarget(c, e1, e2) ==
    ChannelOf(e1) = ChannelOf(e2) /\ SlotOf(c, e1) = SlotOf(c, e2)

\* the block sequence of channel ch that the history of accepted events determines:
\* block k holds, at each slot, the k-th event accepted for that slot if there is one
BlocksFromLog(ch) ==
    [k \in 1 .. Max(1, MaxAccepted(ch)) |->
        LET ev == [s \in Slots |-> IF k <= Len(accepted[<< ch, s >>])
                                   THEN Some(accepted[<< ch, s >>][k])
                                   ELSE None]
        IN  [events |-> ev, fill_count |-> Cardinality({ s \in Slots : ev[s] # None })]]

\* C21: two Cube::set_event calls whose events select different (channel, slot)
\* pairs commute: made in either order from the same reachable state, each call
\* returns the same result and the final cubes are equal (block sequences with
\* their slots and fill counts, index maps); and in every reachable state the cube
\* is the one determined by the per-(channel, slot) sequences of accepted events.
C21_Commute ==
    /\ (last.op = "pair" /\ ~SameTarget(last.before, last.e1, last.e2)) =>
          /\ last.ab.first = last.ba.second
          /\ last.ab.second = last.ba.first
          /\ last.ab.cube = last.ba.cube
          /\ cube = last.ab.cube
    /\ \A ch \in Channels :
          /\ Blocks(cube, ch) = BlocksFromLog(ch)
          /\ IdxMap(cube, ch) = [s \in Slots |-> Len(accepted[<< ch, s >>])]

\* a pair on two slots of channel 0 with different values, from a state where the
\* first slot is already held: one order pushes the second block in its first call,
\* the other in its second call
C21_Witness ==
    /\ last.op = "pair"
    /\ ChannelOf(last.e1) = 0 /\ ChannelOf(last.e2) = 0
    /\ SlotOf(last.before, last.e1) = 0 /\ SlotOf(last.before, last.e2) = 1
    /\ last.e1.d # last.e2.d
    /\ last.before.block_idx_map_r[0] = 1
    /\ Len(last.before.blocks_r) = 1
    /\ Len(cube.blocks_r) = 2
    /\ cube.blocks_r[2].fill_count = 1
    /\ cube.blocks_r[1].fill_count = 2
    /\ last.ab.cube = last.ba.cube

\* C22: gen_zigzag_order terminates, having recorded exactly N*N positions, one per
\* loop iteration; in every state of the sweep the cursor (y, x) is inside
\* [0, N) x [0, N): no move takes y or x below 0 or to N.
C22_SweepInBounds ==
    /\ [](/\ gen.y \in 0 .. (BLOCK_SIZE_BIG - 1)
          /\ gen.x \in 0 .. (BLOCK_SIZE_BIG - 1)
          /\ gen.idx <= NumSlots
          /\ (gen.pc = "done") <=> (gen.idx = NumSlots))
    /\ [][gen'.idx = gen.idx + 1]_vars
    /\ <>[](gen.pc = "done" /\ gen.idx = NumSlots)

\* the sweep of side 5 has ended at the last cell after 25 records, having turned at
\* the last column and the last row on its way
C22_Witness ==
    /\ gen.pc = "done"
    /\ BLOCK_SIZE_BIG = 5
    /\ gen.idx = 25
    /\ gen.y = 4 /\ gen.x = 4
    /\ gen.order[14] = 4
    /\ gen.order[15] = 9

====
